---- MODULE Spec2Model ----
(***************************************************************************)
(* A model of stream-yolo's main.rs: the controller thread (main: argument *)
(* check, element creation, model load, graph assembly, set_state, bus     *)
(* loop, shutdown), the pad-added handler, and the appsink new_sample      *)
(* callback (frame counter, decimation, frame construction, inference,     *)
(* crop and export) run by the streaming thread.                           *)
(***************************************************************************)
EXTENDS Integers, Sequences, FiniteSets, TLC

VARIABLES
    pc,             \* position of main (the controller thread)
    argc,           \* args.len()
    created,        \* number of elements built so far, in source order
    modelLoaded,    \* yolo_model was loaded
    graphAdded,     \* pipeline.add_many succeeded
    padHandler,     \* connect_pad_added registered
    staticLinks,    \* links made by link_many, in chain order
    pipelineState,  \* the gst::State of the pipeline
    targetState,    \* the state the last set_state call asked for
    errorInPlaying, \* an element posted an error while the pipeline played
    sinkLinked,     \* rtpjitterbuffer's sink pad is linked
    linkCount,      \* successful src_pad.link calls
    linkWarned,     \* a "Failed to link pads" warning was logged
    dupPadAdded,    \* a pad-added signal found the sink pad already linked
    bus,            \* messages posted on the pipeline bus, oldest first
    terminal,       \* the bus message that ended the bus loop
    stderr,         \* lines written by eprintln!
    exitResult,     \* what main returned
    streamState,    \* "live", "error" (a flow error ended it) or "eos" (posted)
    frame_counter,  \* the AtomicUsize
    delivered,      \* samples pulled by the callback
    gatePc,         \* position of the new_sample callback
    counter,        \* the callback's local: value returned by fetch_add
    attempted,      \* sequences that entered the detection branch
    inferred,       \* sequences on which inference was called
    yolo_output,    \* the callback's local: detections of the frame
    idx,            \* export attempts made for the frame
    lastCrop,       \* <<arguments of the crop_imm call of this iteration>>
    files,          \* the working directory: file name -> <<image>> or <<>>
    panicAt,        \* which expect() panicked in the callback
    decodeFailed,   \* RgbImage::from_raw returned None
    inferFailed     \* inference returned Err

ctrlVars == <<pc, argc, created, modelLoaded, graphAdded, padHandler,
              staticLinks, terminal, stderr, exitResult>>
linkVars == <<sinkLinked, linkCount, linkWarned, dupPadAdded>>
auxVars == <<targetState, errorInPlaying>>
gateVars == <<frame_counter, delivered, gatePc, counter, attempted,
              inferred, yolo_output, idx, lastCrop, files, panicAt,
              decodeFailed, inferFailed>>
vars == <<pc, argc, created, modelLoaded, graphAdded, padHandler,
          staticLinks, pipelineState, targetState, errorInPlaying, sinkLinked, linkCount, linkWarned,
          dupPadAdded, bus, terminal, stderr, exitResult, streamState, frame_counter,
          delivered, gatePc, counter, attempted, inferred, yolo_output,
          idx, lastCrop, files, panicAt, decodeFailed, inferFailed>>

(***************************************************************************)
(* Bounds of the model.                                                    *)
(***************************************************************************)
MaxFrames == 3
LongFrames == 90
FileFrames == 31
MaxBus == 2
MaxArgc == 3

(***************************************************************************)
(* Program constants.                                                      *)
(***************************************************************************)
K == 30
RequiredArgc == 2
BytesPerPixel == 3

ElementNames ==
    <<"rtspsrc", "rtpjitterbuffer", "rtph264depay", "avdec_h264",
      "videoconvert", "identity", "appsink">>

StaticChain ==
    <<"rtpjitterbuffer", "rtph264depay", "avdec_h264", "videoconvert",
      "identity", "appsink">>

(***************************************************************************)
(* Inputs: what the stream and the inference engine may hand the program.  *)
(* Coordinates are whole pixels; confidences are in thousandths.           *)
(***************************************************************************)
FrameInfo == [width |-> 100, height |-> 100]

RequiredLen == FrameInfo.width * FrameInfo.height * BytesPerPixel

\* lengths of map.as_slice(): one byte short, exact, padded
BufferLens == {RequiredLen - 1, RequiredLen, RequiredLen + 4}

Box(a, b, c, d) == [x1 |-> a, y1 |-> b, x2 |-> c, y2 |-> d]

Entity(l, c, b) == [label |-> l, confidence |-> c, bounding_box |-> b]

InferenceOutputs ==
    { <<>>,
      <<Entity("cat", 913, Box(0, 0, 10, 10))>>,
      <<Entity("cat", 925, Box(0, 0, 10, 10)),
        Entity("cat", 934, Box(20, 20, 40, 40))>>,
      <<Entity("dog", 500, Box(5, 5, 120, 50))>>,
      <<Entity("person", 245, Box(50, 50, 50, 60)),
        Entity("cat", 913, Box(0, 0, 10, 10))>>,
      <<Entity("bird", 875, Box(-3, 2, 7, 12))>> }

\* the outputs of a detector that finds one thing or nothing
QuietOutputs ==
    { <<>>, <<Entity("cat", 913, Box(0, 0, 10, 10))>> }

ErrorSources == {"rtspsrc", "none"}

\* the unwrap()s between pull_sample and fetch_add
UnwrapSites == {"buffer", "caps", "video_info", "map_readable"}

(***************************************************************************)
(* Pure functions of the callback.                                         *)
(***************************************************************************)
\* a gate that admits the frame after each multiple of K
AdmitShifted(n) == n % K = 1

\* counter % 30 == 0
Admit(n) == n % K = 0

\* frame_counter.fetch_add(1, Relaxed): the value stored.  usize does not
\* wrap within any stream the model delivers.
FetchAdd(v) == v + 1

\* RgbImage::from_raw: Some iff the buffer holds at least w*h*3 bytes
FromRawOk(len) == len >= RequiredLen

\* `as u32` of a float: negative values saturate to 0
AsU32(v) == IF v < 0 THEN 0 ELSE v

\* the four arguments handed to crop_imm
CropArgs(b) ==
    [x |-> AsU32(b.x1), y |-> AsU32(b.y1),
     w |-> AsU32(b.x2 - b.x1), h |-> AsU32(b.y2 - b.y1)]

Min(a, b) == IF a < b THEN a ELSE b

\* DynamicImage::crop_imm: the rectangle of the view it returns
CropImm(a) ==
    LET x == Min(a.x, FrameInfo.width)
        y == Min(a.y, FrameInfo.height)
    IN  [x |-> x, y |-> y,
         w |-> Min(a.w, FrameInfo.width - x),
         h |-> Min(a.h, FrameInfo.height - y)]

RECURSIVE Pow2Mod(_)
\* 2^e modulo 1000
Pow2Mod(e) == IF e = 0 THEN 1 ELSE (2 * Pow2Mod(e - 1)) % 1000

\* the confidence is an f32: the power of two that scales c/1000, c > 0, to
\* a significand of 24 bits
F32Scale(c) ==
    23 + (CHOOSE k \in 0..10 :
            /\ c * 2^k >= 1000
            /\ k > 0 => c * 2^(k - 1) < 1000)

\* on which side of c/1000 the nearest f32 lies: -1 below, 0 exact, 1 above.
\* What rounding the scaled value to a whole significand drops or adds is
\* the remainder of c * 2^e by 1000 (never 500, since 8 divides c * 2^e).
F32Error(c) ==
    IF c = 0 THEN 0
    ELSE LET rem == (c * Pow2Mod(F32Scale(c))) % 1000
         IN  IF rem = 0 THEN 0 ELSE IF rem < 500 THEN -1 ELSE 1

\* {:.2} of a confidence, in hundredths: the exact value of the f32 is
\* rounded to nearest, and a value exactly halfway goes to the even digit
FormatConfidence(c) ==
    LET q == c \div 10
        r == c % 10
    IN  IF r < 5 THEN q
        ELSE IF r > 5 THEN q + 1
        ELSE IF F32Error(c) < 0 THEN q
        ELSE IF F32Error(c) > 0 THEN q + 1
        ELSE IF q % 2 = 0 THEN q ELSE q + 1

\* a name built from the counter after its increment
FileNameNextSeq(n, e) ==
    [seq |-> n + 1, label |-> e.label,
     conf |-> FormatConfidence(e.confidence)]

\* format!("frame-{}-{}-{:.2}.png", counter, label, confidence)
FileName(n, e) ==
    [seq |-> n, label |-> e.label, conf |-> FormatConfidence(e.confidence)]

\* write_to(.., Png) of a view: an image with a zero side cannot be encoded
Encodable(r) == r.w > 0 /\ r.h > 0

\* a write that leaves an existing file alone
WriteFileKeepFirst(fs, name, content) ==
    [n \in DOMAIN fs \cup {name} |-> IF n \in DOMAIN fs THEN fs[n] ELSE content]

\* the directory after File::create(name) (content <<>>: the file is
\* truncated) or after write_to on that file: it holds `content`, whatever
\* it held before
WriteFile(fs, name, content) ==
    [n \in DOMAIN fs \cup {name} |-> IF n = name THEN content ELSE fs[n]]

(***************************************************************************)
(* gst::State and the steps set_state takes between two states.            *)
(***************************************************************************)
GstStates == <<"Null", "Ready", "Paused", "Playing">>

Rank(s) == CHOOSE i \in 1..4 : GstStates[i] = s

\* a state change made in one jump
GstJumpState(cur, target) == target

\* the next state on the way from cur to target, one step at a time
GstNextState(cur, target) ==
    IF Rank(cur) < Rank(target) THEN GstStates[Rank(cur) + 1]
    ELSE IF Rank(cur) > Rank(target) THEN GstStates[Rank(cur) - 1]
    ELSE cur

ErrorMsg(src, text) == [type |-> "error", src |-> src, text |-> text]
EosMsg == [type |-> "eos", src |-> "none", text |-> ""]
OtherMsg == [type |-> "other", src |-> "none", text |-> ""]

(***************************************************************************)
(* The state after process start, before main's first statement.           *)
(***************************************************************************)
Init ==
    /\ pc = "gst_init"
    /\ argc \in 1..MaxArgc
    /\ created = 0
    /\ modelLoaded = FALSE
    /\ graphAdded = FALSE
    /\ padHandler = FALSE
    /\ staticLinks = 0
    /\ pipelineState = "Null"
    /\ targetState = "Null"
    /\ errorInPlaying = FALSE
    /\ sinkLinked = FALSE
    /\ linkCount = 0
    /\ linkWarned = FALSE
    /\ dupPadAdded = FALSE
    /\ bus = <<>>
    /\ terminal = "none"
    /\ stderr = <<>>
    /\ exitResult = "running"
    /\ streamState = "live"
    /\ frame_counter = 0
    /\ delivered = 0
    /\ gatePc = "idle"
    /\ counter = 0
    /\ attempted = {}
    /\ inferred = {}
    /\ yolo_output = <<>>
    /\ idx = 0
    /\ lastCrop = <<>>
    /\ files = <<>>
    /\ panicAt = "none"
    /\ decodeFailed = FALSE
    /\ inferFailed = FALSE

\* main returns: Ok(()) or an anyhow error carrying `result` as its context
Return(result) ==
    /\ pc' = "done"
    /\ exitResult' = result

(***************************************************************************)
(* main, the controller thread.                                            *)
(***************************************************************************)
\* gst::init()?
GstInit ==
    /\ pc = "gst_init"
    /\ \/ /\ pc' = "args"
          /\ UNCHANGED exitResult
       \/ Return("Err: gst init")
    /\ UNCHANGED <<argc, created, modelLoaded, graphAdded, padHandler,
                   staticLinks, terminal, stderr>>
    /\ UNCHANGED <<pipelineState, bus, streamState>>
    /\ UNCHANGED linkVars
    /\ UNCHANGED auxVars
    /\ UNCHANGED gateVars

\* an argument check that only rejects a missing URI
TooFewArgs(n) == n < RequiredArgc

\* args.len() != 2
WrongArgs(n) == n # RequiredArgc

\* if args.len() != 2 { eprintln!(usage); return Ok(()) }
CheckArgs ==
    /\ pc = "args"
    /\ IF WrongArgs(argc)
       THEN /\ stderr' = Append(stderr, [kind |-> "usage", src |-> "", text |-> ""])
            /\ Return("Ok")
       ELSE /\ pc' = "create"
            /\ UNCHANGED <<stderr, exitResult>>
    /\ UNCHANGED <<argc, created, modelLoaded, graphAdded, padHandler,
                   staticLinks, terminal>>
    /\ UNCHANGED <<pipelineState, bus, streamState>>
    /\ UNCHANGED linkVars
    /\ UNCHANGED auxVars
    /\ UNCHANGED gateVars

\* the six ElementFactory::make(..).build().context(..)? calls
CreateElement ==
    /\ pc = "create"
    /\ \/ /\ created' = created + 1
          /\ pc' = IF created + 1 = Len(ElementNames) - 1
                   THEN "load_model" ELSE "create"
          /\ UNCHANGED exitResult
       \/ /\ Return("Err: failed to create element")
          /\ UNCHANGED created
    /\ UNCHANGED <<argc, modelLoaded, graphAdded, padHandler, staticLinks,
                   terminal, stderr>>
    /\ UNCHANGED <<pipelineState, bus, streamState>>
    /\ UNCHANGED linkVars
    /\ UNCHANGED auxVars
    /\ UNCHANGED gateVars

\* a model load whose failure is not propagated
LoadModelUnchecked ==
    /\ pc = "load_model"
    /\ \/ modelLoaded' = TRUE
       \/ UNCHANGED modelLoaded
    /\ pc' = "build_appsink"
    /\ UNCHANGED <<argc, created, graphAdded, padHandler, staticLinks,
                   terminal, stderr, exitResult>>
    /\ UNCHANGED <<pipelineState, bus, streamState>>
    /\ UNCHANGED linkVars
    /\ UNCHANGED auxVars
    /\ UNCHANGED gateVars

\* YoloModelSession::from_filename_v8(..).context(..)?
LoadModel ==
    /\ pc = "load_model"
    /\ \/ /\ modelLoaded' = TRUE
          /\ pc' = "build_appsink"
          /\ UNCHANGED exitResult
       \/ /\ Return("Err: failed to load YOLO model")
          /\ UNCHANGED modelLoaded
    /\ UNCHANGED <<argc, created, graphAdded, padHandler, staticLinks,
                   terminal, stderr>>
    /\ UNCHANGED <<pipelineState, bus, streamState>>
    /\ UNCHANGED linkVars
    /\ UNCHANGED auxVars
    /\ UNCHANGED gateVars

\* AppSink::builder()...build().upcast()
BuildAppSink ==
    /\ pc = "build_appsink"
    /\ created' = created + 1
    /\ pc' = "add_many"
    /\ UNCHANGED <<argc, modelLoaded, graphAdded, padHandler, staticLinks,
                   terminal, stderr, exitResult>>
    /\ UNCHANGED <<pipelineState, bus, streamState>>
    /\ UNCHANGED linkVars
    /\ UNCHANGED auxVars
    /\ UNCHANGED gateVars

\* pipeline.add_many([..])?
AddMany ==
    /\ pc = "add_many"
    /\ \/ /\ graphAdded' = TRUE
          /\ pc' = "connect_pad_added"
          /\ UNCHANGED exitResult
       \/ /\ Return("Err: add_many")
          /\ UNCHANGED graphAdded
    /\ UNCHANGED <<argc, created, modelLoaded, padHandler, staticLinks,
                   terminal, stderr>>
    /\ UNCHANGED <<pipelineState, bus, streamState>>
    /\ UNCHANGED linkVars
    /\ UNCHANGED auxVars
    /\ UNCHANGED gateVars

\* rtspsrc_element.connect_pad_added(..)
ConnectPadAdded ==
    /\ pc = "connect_pad_added"
    /\ padHandler' = TRUE
    /\ pc' = "link_many"
    /\ UNCHANGED <<argc, created, modelLoaded, graphAdded, staticLinks,
                   terminal, stderr, exitResult>>
    /\ UNCHANGED <<pipelineState, bus, streamState>>
    /\ UNCHANGED linkVars
    /\ UNCHANGED auxVars
    /\ UNCHANGED gateVars

\* a link_many whose error is dropped
LinkManyUnchecked(k) == TRUE

\* link_many returns Ok iff all pairs of the chain were linked
LinkManyOk(k) == k = Len(StaticChain) - 1

\* gst::Element::link_many([..])?: links the chain pair by pair and stops at
\* the first pair that cannot be linked
LinkMany ==
    /\ pc = "link_many"
    /\ \E k \in 0..(Len(StaticChain) - 1) :
          /\ staticLinks' = k
          /\ IF LinkManyOk(k)
             THEN /\ pc' = "set_playing"
                  /\ UNCHANGED exitResult
             ELSE Return("Err: link_many")
    /\ UNCHANGED <<argc, created, modelLoaded, graphAdded, padHandler,
                   terminal, stderr>>
    /\ UNCHANGED <<pipelineState, bus, streamState>>
    /\ UNCHANGED linkVars
    /\ UNCHANGED auxVars
    /\ UNCHANGED gateVars

\* pipeline.set_state(gst::State::Playing).context(..)?: the pipeline goes
\* through the intermediate states and posts a state-changed message for
\* each; a failed step leaves it where it was, the element that failed
\* posts an error message and main returns the error;
\* once out of Null the call may return Ok(Async) and leave the rest of the
\* change to the streaming thread
SetStatePlaying ==
    /\ pc = "set_playing"
    /\ targetState' = "Playing"
    /\ \/ /\ pipelineState' = GstNextState(pipelineState, "Playing")
          /\ bus' = Append(bus, OtherMsg)
          /\ pc' = IF pipelineState' = "Playing" THEN "get_bus" ELSE "set_playing"
          /\ UNCHANGED exitResult
       \/ /\ pipelineState \in {"Ready", "Paused"}
          /\ pc' = "get_bus"
          /\ UNCHANGED <<pipelineState, bus, exitResult>>
       \/ /\ Return("Err: failed to start pipeline")
          /\ \E src \in ErrorSources :
                bus' = Append(bus, ErrorMsg(src, "state change failed"))
          /\ UNCHANGED pipelineState
    /\ UNCHANGED <<argc, created, modelLoaded, graphAdded, padHandler,
                   staticLinks, terminal, stderr>>
    /\ UNCHANGED <<streamState, errorInPlaying>>
    /\ UNCHANGED linkVars
    /\ UNCHANGED gateVars

\* pipeline.bus().context("failed to get bus")?: a pipeline always has a
\* bus, so the call returns Some
GetBus ==
    /\ pc = "get_bus"
    /\ pc' = "bus_loop"
    /\ UNCHANGED exitResult
    /\ UNCHANGED <<argc, created, modelLoaded, graphAdded, padHandler,
                   staticLinks, terminal, stderr>>
    /\ UNCHANGED <<pipelineState, bus, streamState>>
    /\ UNCHANGED linkVars
    /\ UNCHANGED auxVars
    /\ UNCHANGED gateVars

\* a bus loop that leaves on an error without printing it
BusLoopSilent ==
    /\ pc = "bus_loop"
    /\ bus # <<>>
    /\ bus' = Tail(bus)
    /\ LET msg == Head(bus) IN
         CASE msg.type = "eos" ->
                /\ terminal' = "eos"
                /\ pc' = "shutdown"
                /\ UNCHANGED stderr
           [] msg.type = "error" ->
                /\ terminal' = "error"
                /\ pc' = "shutdown"
                /\ UNCHANGED stderr
           [] OTHER ->
                /\ UNCHANGED <<terminal, pc, stderr>>
    /\ UNCHANGED <<argc, created, modelLoaded, graphAdded, padHandler,
                   staticLinks, exitResult>>
    /\ UNCHANGED <<pipelineState, streamState>>
    /\ UNCHANGED linkVars
    /\ UNCHANGED auxVars
    /\ UNCHANGED gateVars

\* one iteration of `for msg in bus.iter_timed(NONE)`: blocks on an empty bus
BusLoop ==
    /\ pc = "bus_loop"
    /\ bus # <<>>
    /\ bus' = Tail(bus)
    /\ LET msg == Head(bus) IN
         CASE msg.type = "eos" ->
                /\ terminal' = "eos"
                /\ pc' = "shutdown"
                /\ UNCHANGED stderr
           [] msg.type = "error" ->
                /\ stderr' = Append(stderr,
                       [kind |-> "error",
                        src |-> IF msg.src = "none" THEN "<?>" ELSE msg.src,
                        text |-> msg.text])
                /\ terminal' = "error"
                /\ pc' = "shutdown"
           [] OTHER ->
                /\ UNCHANGED <<terminal, pc, stderr>>
    /\ UNCHANGED <<argc, created, modelLoaded, graphAdded, padHandler,
                   staticLinks, exitResult>>
    /\ UNCHANGED <<pipelineState, streamState>>
    /\ UNCHANGED linkVars
    /\ UNCHANGED auxVars
    /\ UNCHANGED gateVars

\* a shutdown that only pauses
ShutdownTargetPaused == "Paused"

\* the state the final set_state asks for
ShutdownTarget == "Null"

\* a set_state(Null) that does not wait for the streaming thread
CallbackAnywhere(g) == TRUE

\* the streaming thread is outside the new_sample callback: what
\* set_state(Null) waits for before it stops the stream
CallbackOutside(g) == g \in {"idle", "panicked"}

\* pipeline.set_state(gst::State::Null).context(..)?; Ok(()).  The call
\* records its target at once, which cancels a pending change to Playing,
\* and then takes the pipeline down step by step.  The pipeline may leave
\* Playing while a callback is running, and callbacks go on being entered
\* in Paused; the step from Paused to Ready stops the stream and waits
\* until the streaming thread is outside the callback, and so does the
\* return of the call.  Every step posts a state-changed message and the
\* step into Null flushes the bus.
Shutdown ==
    /\ \/ /\ pc = "shutdown"
          /\ pc' = "stopping"
          /\ targetState' = ShutdownTarget
          /\ UNCHANGED <<pipelineState, bus, exitResult>>
       \/ /\ pc = "stopping"
          /\ pipelineState # ShutdownTarget
          /\ pipelineState # "Playing" => CallbackOutside(gatePc)
          /\ pipelineState' = GstNextState(pipelineState, ShutdownTarget)
          /\ bus' = IF pipelineState' = "Null" THEN <<>> ELSE Append(bus, OtherMsg)
          /\ UNCHANGED <<pc, exitResult, targetState>>
       \/ /\ pc = "stopping"
          /\ CallbackOutside(gatePc)
          /\ pipelineState = ShutdownTarget
          /\ Return("Ok")
          /\ UNCHANGED <<pipelineState, bus, targetState>>
       \/ /\ pc = "stopping"
          /\ CallbackOutside(gatePc)
          /\ pipelineState # ShutdownTarget
          /\ Return("Err: failed to stop pipeline")
          /\ UNCHANGED <<pipelineState, bus, targetState>>
    /\ UNCHANGED <<argc, created, modelLoaded, graphAdded, padHandler,
                   staticLinks, terminal, stderr>>
    /\ UNCHANGED <<streamState, errorInPlaying>>
    /\ UNCHANGED linkVars
    /\ UNCHANGED gateVars

(***************************************************************************)
(* The streaming side: the pad-added handler, the messages the framework   *)
(* posts, and the new_sample callback.                                     *)
(***************************************************************************)
Running == pc \notin {"done", "aborted"}

\* the streaming thread completes a state change that set_state(Playing)
\* left pending, posting the state-changed message; the sink commits
\* Playing when a buffer has reached it
AsyncStateChange ==
    /\ Running
    /\ pc # "set_playing"
    /\ targetState = "Playing"
    /\ pipelineState \in {"Ready", "Paused"}
    /\ pipelineState = "Paused" => sinkLinked
    /\ pipelineState' = GstNextState(pipelineState, targetState)
    /\ bus' = Append(bus, OtherMsg)
    /\ UNCHANGED ctrlVars
    /\ UNCHANGED streamState
    /\ UNCHANGED linkVars
    /\ UNCHANGED auxVars
    /\ UNCHANGED gateVars

\* a handler that links without looking at the sink pad
LinkAlways(linked) == TRUE

\* whether the handler makes a link attempt: if !sink_pad.is_linked()
ShouldLink(linked) == ~linked

\* a handler whose failed link marks the sink pad as taken
PadAddedGivingUp ==
    /\ pc \notin {"done", "aborted"}
    /\ padHandler
    /\ pipelineState \in {"Paused", "Playing"}
    /\ IF ~sinkLinked
       THEN \/ /\ sinkLinked' = TRUE
               /\ linkCount' = linkCount + 1
               /\ UNCHANGED <<linkWarned, dupPadAdded>>
            \/ /\ linkWarned' = TRUE
               /\ sinkLinked' = TRUE
               /\ UNCHANGED <<linkCount, dupPadAdded>>
       ELSE /\ dupPadAdded' = TRUE
            /\ UNCHANGED <<sinkLinked, linkCount, linkWarned>>
    /\ UNCHANGED ctrlVars
    /\ UNCHANGED <<pipelineState, bus, streamState>>
    /\ UNCHANGED auxVars
    /\ UNCHANGED gateVars

\* the closure given to connect_pad_added, run once per pad-added signal
PadAdded ==
    /\ Running
    /\ padHandler
    /\ pipelineState \in {"Paused", "Playing"}
    /\ IF ShouldLink(sinkLinked)
       THEN \/ /\ sinkLinked' = TRUE
               /\ linkCount' = linkCount + 1
               /\ UNCHANGED <<linkWarned, dupPadAdded>>
            \/ /\ linkWarned' = TRUE
               /\ UNCHANGED <<sinkLinked, linkCount, dupPadAdded>>
       ELSE /\ dupPadAdded' = TRUE
            /\ UNCHANGED <<sinkLinked, linkCount, linkWarned>>
    /\ UNCHANGED ctrlVars
    /\ UNCHANGED <<pipelineState, bus, streamState>>
    /\ UNCHANGED auxVars
    /\ UNCHANGED gateVars

\* the stream ends, or the source gives up after a flow error it has
\* reported: the sink gets end-of-stream after the last callback and the
\* pipeline, Playing with no state change pending, posts it on the bus
PostEos ==
    /\ Running
    /\ pipelineState = "Playing"
    /\ targetState = "Playing"
    /\ streamState \in {"live", "error"}
    /\ gatePc \in {"idle", "panicked"}
    /\ bus' = Append(bus, EosMsg)
    /\ streamState' = "eos"
    /\ UNCHANGED ctrlVars
    /\ UNCHANGED pipelineState
    /\ UNCHANGED linkVars
    /\ UNCHANGED auxVars
    /\ UNCHANGED gateVars

\* an element posts an error; nothing in the program stops the stream then
PostError ==
    /\ Running
    /\ pipelineState # "Null"
    /\ Len(bus) < MaxBus
    /\ \E src \in ErrorSources :
          bus' = Append(bus, ErrorMsg(src, "stream error"))
    /\ errorInPlaying' = (errorInPlaying \/ pipelineState = "Playing")
    /\ UNCHANGED ctrlVars
    /\ UNCHANGED <<pipelineState, streamState, targetState>>
    /\ UNCHANGED linkVars
    /\ UNCHANGED gateVars

\* any other message (tags, stream status, ..)
PostOther ==
    /\ Running
    /\ pipelineState # "Null"
    /\ Len(bus) < MaxBus
    /\ bus' = Append(bus, OtherMsg)
    /\ UNCHANGED ctrlVars
    /\ UNCHANGED <<pipelineState, streamState>>
    /\ UNCHANGED linkVars
    /\ UNCHANGED auxVars
    /\ UNCHANGED gateVars

\* an expect() fails inside the callback.  A build that unwinds has the
\* binding catch the panic, post an error on the bus and return a flow
\* error; a build with panic=abort ends the process.
Panic(site) ==
    /\ panicAt' = site
    /\ gatePc' = "panicked"
    /\ \/ /\ bus' = Append(bus, ErrorMsg("appsink", "Panicked"))
          /\ streamState' = "error"
          /\ UNCHANGED <<pc, exitResult>>
       \/ /\ pc' = "aborted"
          /\ exitResult' = "abort"
          /\ UNCHANGED <<bus, streamState>>

\* new_sample is called; sink.pull_sample().  The sink plays, and calls,
\* as soon as a buffer reaches it, which may be before the pipeline has
\* committed a pending change from Paused to Playing, and it goes on
\* calling after the pipeline has left Playing until the stream is stopped
\* by the step from Paused to Ready.
GateEnter(limit) ==
    /\ Running
    /\ \/ pipelineState = "Playing"
       \/ /\ pipelineState = "Paused"
          /\ pc # "set_playing"
    /\ sinkLinked
    /\ streamState = "live"
    /\ gatePc = "idle"
    /\ delivered < limit
    /\ \/ /\ gatePc' = "pulled"
          /\ delivered' = delivered + 1
          /\ UNCHANGED <<bus, streamState>>
       \/ /\ bus' = Append(bus, ErrorMsg("rtspsrc", "Internal data stream error"))
          /\ streamState' = "error"
          /\ UNCHANGED <<gatePc, delivered>>
    /\ UNCHANGED ctrlVars
    /\ UNCHANGED pipelineState
    /\ UNCHANGED linkVars
    /\ UNCHANGED auxVars
    /\ UNCHANGED <<frame_counter, counter, attempted, yolo_output, idx,
                   lastCrop, files, panicAt, decodeFailed, inferFailed>>
    /\ UNCHANGED inferred

\* sample.buffer().unwrap(), sample.caps().unwrap(), from_caps(..).unwrap(),
\* map_readable().unwrap()
GateUnwrap ==
    /\ Running
    /\ gatePc = "pulled"
    /\ \/ /\ gatePc' = "mapped"
          /\ UNCHANGED <<pc, exitResult, bus, streamState, panicAt>>
       \/ \E site \in UnwrapSites : Panic(site)
    /\ UNCHANGED <<argc, created, modelLoaded, graphAdded, padHandler,
                   staticLinks, terminal, stderr>>
    /\ UNCHANGED pipelineState
    /\ UNCHANGED linkVars
    /\ UNCHANGED auxVars
    /\ UNCHANGED <<frame_counter, delivered, counter, attempted, yolo_output,
                   idx, lastCrop, files, decodeFailed, inferFailed>>
    /\ UNCHANGED inferred

\* let counter = frame_counter.fetch_add(1, Ordering::Relaxed): the one
\* atomic read-and-increment of the shared counter
GateCount ==
    /\ Running
    /\ gatePc = "mapped"
    /\ counter' = frame_counter
    /\ frame_counter' = FetchAdd(frame_counter)
    /\ gatePc' = "counted"
    /\ UNCHANGED ctrlVars
    /\ UNCHANGED <<pipelineState, bus, streamState>>
    /\ UNCHANGED linkVars
    /\ UNCHANGED auxVars
    /\ UNCHANGED <<delivered, attempted, yolo_output, idx, lastCrop, files,
                   panicAt, decodeFailed, inferFailed>>
    /\ UNCHANGED inferred

\* if counter % 30 == 0 { .. } on the callback's local; a frame that is not
\* admitted goes straight to Ok(gst::FlowSuccess::Ok)
GateAdmit ==
    /\ Running
    /\ gatePc = "counted"
    /\ IF Admit(counter)
       THEN /\ attempted' = attempted \cup {counter}
            /\ gatePc' = "admitted"
            /\ UNCHANGED counter
       ELSE /\ gatePc' = "idle"
            /\ counter' = 0
            /\ UNCHANGED attempted
    /\ UNCHANGED ctrlVars
    /\ UNCHANGED <<pipelineState, bus, streamState>>
    /\ UNCHANGED linkVars
    /\ UNCHANGED auxVars
    /\ UNCHANGED <<frame_counter, delivered, yolo_output, idx, lastCrop, files,
                   panicAt, decodeFailed, inferFailed>>
    /\ UNCHANGED inferred

\* RgbImage::from_raw(width, height, frame_data.to_vec()).expect(..)
GateBuildFrame ==
    /\ Running
    /\ gatePc = "admitted"
    /\ \E len \in BufferLens :
          IF FromRawOk(len)
          THEN /\ gatePc' = "built"
               /\ UNCHANGED <<pc, exitResult, bus, streamState, panicAt,
                              decodeFailed>>
          ELSE /\ decodeFailed' = TRUE
               /\ Panic("from_raw")
    /\ UNCHANGED <<argc, created, modelLoaded, graphAdded, padHandler,
                   staticLinks, terminal, stderr>>
    /\ UNCHANGED pipelineState
    /\ UNCHANGED linkVars
    /\ UNCHANGED auxVars
    /\ UNCHANGED <<frame_counter, delivered, counter, attempted, yolo_output,
                   idx, lastCrop, files, inferFailed>>
    /\ UNCHANGED inferred

\* image_to_yolo_input_tensor; inference(..).expect("failed to run inference")
GateInfer(outputs) ==
    /\ Running
    /\ gatePc = "built"
    /\ inferred' = inferred \cup {counter}
    /\ \/ \E out \in outputs :
             /\ yolo_output' = out
             /\ idx' = 0
             /\ gatePc' = "exporting"
             /\ UNCHANGED <<pc, exitResult, bus, streamState, panicAt,
                            inferFailed>>
       \/ /\ inferFailed' = TRUE
          /\ Panic("inference")
          /\ UNCHANGED <<yolo_output, idx>>
    /\ UNCHANGED <<argc, created, modelLoaded, graphAdded, padHandler,
                   staticLinks, terminal, stderr>>
    /\ UNCHANGED pipelineState
    /\ UNCHANGED linkVars
    /\ UNCHANGED auxVars
    /\ UNCHANGED <<frame_counter, delivered, counter, attempted, lastCrop,
                   files, decodeFailed>>

\* an iteration of `for entity in yolo_output` begins: crop_imm, then
\* File::create(..).expect(..), which truncates the file
GateCreate ==
    /\ Running
    /\ gatePc = "exporting"
    /\ idx < Len(yolo_output)
    /\ LET entity == yolo_output[idx + 1]
           args == CropArgs(entity.bounding_box)
           name == FileName(counter, entity)
       IN  /\ lastCrop' = <<args>>
           /\ idx' = idx + 1
           /\ \/ /\ files' = WriteFile(files, name, <<>>)
                 /\ gatePc' = "created"
                 /\ UNCHANGED <<pc, exitResult, bus, streamState, panicAt>>
              \/ /\ UNCHANGED files
                 /\ Panic("create")
    /\ UNCHANGED <<argc, created, modelLoaded, graphAdded, padHandler,
                   staticLinks, terminal, stderr>>
    /\ UNCHANGED pipelineState
    /\ UNCHANGED linkVars
    /\ UNCHANGED auxVars
    /\ UNCHANGED <<frame_counter, delivered, counter, attempted, yolo_output,
                   decodeFailed, inferFailed>>
    /\ UNCHANGED inferred

\* the iteration ends: cropped_image.write_to(&mut file, Png).expect(..);
\* a failed write leaves the file empty
GateWrite ==
    /\ Running
    /\ gatePc = "created"
    /\ LET entity == yolo_output[idx]
           cropped == CropImm(CropArgs(entity.bounding_box))
           name == FileName(counter, entity)
       IN  \/ /\ Encodable(cropped)
              /\ files' = WriteFile(files, name, <<cropped>>)
              /\ gatePc' = "exporting"
              /\ UNCHANGED <<pc, exitResult, bus, streamState, panicAt>>
           \/ /\ UNCHANGED files
              /\ Panic("write_to")
    /\ UNCHANGED <<argc, created, modelLoaded, graphAdded, padHandler,
                   staticLinks, terminal, stderr>>
    /\ UNCHANGED pipelineState
    /\ UNCHANGED linkVars
    /\ UNCHANGED auxVars
    /\ UNCHANGED <<frame_counter, delivered, counter, attempted, yolo_output,
                   idx, lastCrop, decodeFailed, inferFailed>>
    /\ UNCHANGED inferred

\* the loop is over: Ok(gst::FlowSuccess::Ok)
GateReturn ==
    /\ Running
    /\ gatePc = "exporting"
    /\ idx = Len(yolo_output)
    /\ gatePc' = "idle"
    /\ counter' = 0
    /\ yolo_output' = <<>>
    /\ idx' = 0
    /\ lastCrop' = <<>>
    /\ UNCHANGED ctrlVars
    /\ UNCHANGED <<pipelineState, bus, streamState>>
    /\ UNCHANGED linkVars
    /\ UNCHANGED auxVars
    /\ UNCHANGED <<frame_counter, delivered, attempted, files, panicAt,
                   decodeFailed, inferFailed>>
    /\ UNCHANGED inferred

Next ==
    \/ GstInit
    \/ CheckArgs
    \/ CreateElement
    \/ LoadModel
    \/ BuildAppSink
    \/ AddMany
    \/ ConnectPadAdded
    \/ LinkMany
    \/ SetStatePlaying
    \/ GetBus
    \/ BusLoop
    \/ Shutdown
    \/ AsyncStateChange
    \/ PadAdded
    \/ PostEos
    \/ PostError
    \/ PostOther
    \/ GateEnter(MaxFrames)
    \/ GateUnwrap
    \/ GateCount
    \/ GateAdmit
    \/ GateBuildFrame
    \/ GateInfer(InferenceOutputs)
    \/ GateCreate
    \/ GateWrite
    \/ GateReturn

Spec == Init /\ [][Next]_vars

\* a long stream on a quiet bus: no message but the state changes, the
\* end-of-stream and the callback's own; the detector finds one thing or
\* nothing
NextLong ==
    \/ GstInit
    \/ CheckArgs
    \/ CreateElement
    \/ LoadModel
    \/ BuildAppSink
    \/ AddMany
    \/ ConnectPadAdded
    \/ LinkMany
    \/ SetStatePlaying
    \/ GetBus
    \/ BusLoop
    \/ Shutdown
    \/ AsyncStateChange
    \/ PadAdded
    \/ PostEos
    \/ GateEnter(LongFrames)
    \/ GateUnwrap
    \/ GateCount
    \/ GateAdmit
    \/ GateBuildFrame
    \/ GateInfer(QuietOutputs)
    \/ GateCreate
    \/ GateWrite
    \/ GateReturn

SpecLong == Init /\ [][NextLong]_vars

\* a stream that reaches a second detection frame on a quiet bus, with
\* every output of the detector
NextFiles ==
    \/ GstInit
    \/ CheckArgs
    \/ CreateElement
    \/ LoadModel
    \/ BuildAppSink
    \/ AddMany
    \/ ConnectPadAdded
    \/ LinkMany
    \/ SetStatePlaying
    \/ GetBus
    \/ BusLoop
    \/ Shutdown
    \/ AsyncStateChange
    \/ PadAdded
    \/ PostEos
    \/ GateEnter(FileFrames)
    \/ GateUnwrap
    \/ GateCount
    \/ GateAdmit
    \/ GateBuildFrame
    \/ GateInfer(InferenceOutputs)
    \/ GateCreate
    \/ GateWrite
    \/ GateReturn

SpecFiles == Init /\ [][NextFiles]_vars

(***************************************************************************)
(* Properties.                                                             *)
(***************************************************************************)

\* C1: a frame enters the detection branch if and only if its sequence
\* number (the counter value before the increment) is a multiple of 30; for
\* 90 frames these are the sequences 0, 30 and 60.  Between fetch_add and
\* the test of the sequence number the frame just counted is still to be
\* decided.
C1_DetectionIffMultipleOf30 ==
    /\ attempted = {n \in 0..(frame_counter - 1) : n % 30 = 0}
                      \ (IF gatePc = "counted" THEN {counter} ELSE {})
    /\ frame_counter = 90 => attempted = {0, 30, 60}
    /\ gatePc = "counted" => counter = frame_counter - 1
    /\ gatePc \in {"admitted", "built", "exporting", "created"}
          => counter \in attempted
    /\ inferred \subseteq attempted
    /\ gatePc \in {"idle", "pulled", "mapped", "counted", "exporting", "created"}
          => inferred = attempted

C1_Witness ==
    /\ frame_counter = 90
    /\ delivered = 90
    /\ gatePc = "idle"
    /\ attempted = {0, 30, 60}
    /\ inferred = {0, 30, 60}

\* C2: whenever the callback is not between pull_sample and fetch_add, the
\* counter equals the number of frames received, whether they were admitted
\* or not and whatever became of them.
C2_CounterEqualsFramesReceived ==
    /\ gatePc \notin {"pulled", "mapped"} => frame_counter = delivered
    /\ gatePc \in {"pulled", "mapped"} => frame_counter + 1 = delivered

\* C3: the box handed to the crop step lies inside the frame:
\* 0 <= x1 < x2 <= width and 0 <= y1 < y2 <= height.
C3_BoxWithinFrame ==
    \A i \in DOMAIN lastCrop :
        LET a == lastCrop[i] IN
          /\ 0 <= a.x /\ a.x < a.x + a.w /\ a.x + a.w <= FrameInfo.width
          /\ 0 <= a.y /\ a.y < a.y + a.h /\ a.y + a.h <= FrameInfo.height

\* C4: when the callback is over for a frame, an export attempt was made
\* for every detection of its list, also after a failed export.
C4_AllDetectionsAttempted ==
    (gatePc = "panicked" /\ panicAt \in {"create", "write_to"})
        => idx = Len(yolo_output)

\* C5: a failed inference call does not bring the callback or the process
\* down.
C5_InferenceFailureContained ==
    inferFailed => (gatePc # "panicked" /\ pc # "aborted")

\* C6: a frame whose buffer is too short for its dimensions is skipped and
\* the callback stays in service.
C6_MalformedFrameSkipped ==
    decodeFailed => (gatePc # "panicked" /\ pc # "aborted")

\* C7: the pipeline leaves Null only for Ready, and enters Playing only
\* after Ready (through Paused): no step goes from Null to Playing.
C7_NeverSkipsReady ==
    [][ /\ pipelineState = "Null" => pipelineState' \in {"Null", "Ready"}
        /\ (pipelineState' = "Paused" /\ pipelineState # "Paused")
              => pipelineState \in {"Ready", "Playing"}
        /\ (pipelineState' = "Playing" /\ pipelineState # "Playing")
              => pipelineState = "Paused" ]_vars

C7_Witness ==
    /\ pipelineState = "Playing"
    /\ pc = "bus_loop"

\* the line eprintln! writes for an error message: the name of the element
\* that posted it, or <?>, and its text
ReportLine(msg) ==
    [kind |-> "error",
     src |-> IF msg.src = "none" THEN "<?>" ELSE msg.src,
     text |-> msg.text]

\* C8: the bus loop ends normally on both terminal messages, going on to
\* the shutdown: on end-of-stream it records that and prints nothing, on an
\* error it records that and prints one line with the name of the element
\* that posted the error (<?> when there is none) and the error text.  The
\* record and the printed lines stay as they are afterwards, so when main
\* has returned the two outcomes are told apart by stderr: empty after
\* end-of-stream, the one error line after an error; main's result is then
\* Ok(()) or the error of a failed set_state(Null).
C8_BothTerminalsReported ==
    /\ [][(pc = "bus_loop" /\ pc' \notin {"bus_loop", "aborted"}) =>
            /\ pc' = "shutdown"
            /\ bus # <<>>
            /\ Head(bus).type \in {"eos", "error"}
            /\ terminal' = Head(bus).type
            /\ Head(bus).type = "eos" => stderr' = stderr
            /\ Head(bus).type = "error"
                  => stderr' = Append(stderr, ReportLine(Head(bus)))]_vars
    /\ [][terminal # "none" => (terminal' = terminal /\ stderr' = stderr)]_vars
    /\ [](pc \in {"shutdown", "stopping"} => terminal \in {"eos", "error"})
    /\ [](terminal = "eos" => stderr = <<>>)
    /\ [](terminal = "error" =>
            /\ Len(stderr) = 1
            /\ stderr[1].kind = "error"
            /\ stderr[1].src \in {"rtspsrc", "appsink", "<?>"}
            /\ stderr[1].text # "")
    /\ []((pc = "done" /\ terminal # "none") =>
            exitResult \in {"Ok", "Err: failed to stop pipeline"})

C8_Witness ==
    /\ pc = "done"
    /\ terminal = "error"
    /\ exitResult = "Ok"
    /\ pipelineState = "Null"
    /\ stderr = <<[kind |-> "error", src |-> "<?>", text |-> "stream error"]>>

\* C9: whenever main returns after the elements were added to the
\* pipeline, the pipeline is in Null.
C9_ShutdownOnEveryExit ==
    (pc = "done" /\ graphAdded) => pipelineState = "Null"

\* C10 as stated: after the controller has seen a stream error no step
\* changes the pipeline state.
C10_FailedIsTerminal ==
    [][terminal = "error" => pipelineState' = pipelineState]_vars

\* C10, amended: after the controller has seen a stream error the record of
\* it stays; the pipeline state is lowered only by the shutdown, never moves
\* up again once set_state(Null) was called, and a successful return leaves
\* the pipeline in Null.
C10_AfterErrorOnlyShutdown ==
    /\ [][terminal = "error" => terminal' = "error"]_vars
    /\ [][(terminal = "error" /\ Rank(pipelineState') < Rank(pipelineState))
            => pc = "stopping"]_vars
    /\ [][(terminal = "error" /\ targetState = "Null")
            => Rank(pipelineState') <= Rank(pipelineState)]_vars
    /\ []((terminal = "error" /\ pc = "done" /\ exitResult = "Ok")
            => pipelineState = "Null")

C10_Witness ==
    /\ terminal = "error"
    /\ pc = "done"
    /\ exitResult = "Ok"
    /\ pipelineState = "Null"

\* C11: the pipeline leaves Null only when all seven elements were built
\* and added and the whole static chain of five links was made; a failed
\* element creation or a failed link_many ends main with an error and the
\* pipeline still in Null.
C11_PlayingOnlyWhenAssembled ==
    /\ pipelineState # "Null" =>
          /\ created = 7
          /\ graphAdded
          /\ staticLinks = 5
    /\ exitResult \in {"Err: failed to create element", "Err: link_many"} =>
          /\ pc = "done"
          /\ pipelineState = "Null"
          /\ delivered = 0
    /\ (pc = "done" /\ (created < 7 \/ staticLinks < 5)) =>
          /\ pipelineState = "Null"
          /\ exitResult # "Ok" \/ argc # 2

C11_Witness ==
    /\ exitResult = "Err: link_many"
    /\ created = 7
    /\ staticLinks = 3
    /\ pipelineState = "Null"

\* C12: the model is loaded once, before the pipeline leaves Null, and
\* stays loaded; when the load fails main returns that error with the
\* pipeline in Null and no frame delivered.
C12_ModelLoadedBeforeStreaming ==
    /\ [](pipelineState # "Null" => modelLoaded)
    /\ [](gatePc # "idle" => modelLoaded)
    /\ [](exitResult = "Err: failed to load YOLO model" =>
            /\ pc = "done"
            /\ ~modelLoaded
            /\ pipelineState = "Null"
            /\ delivered = 0
            /\ ~sinkLinked)
    /\ [][modelLoaded => modelLoaded']_vars
    /\ [][(~modelLoaded /\ modelLoaded') => (pc = "load_model" /\ pipelineState = "Null")]_vars
    /\ [][pc \notin {"gst_init", "args", "create", "load_model"}
            => modelLoaded' = modelLoaded]_vars

C12_Witness ==
    /\ exitResult = "Err: failed to load YOLO model"
    /\ pc = "done"
    /\ created = 6

\* C13 as stated: with an argument count other than 2 main prints the usage
\* line and returns Ok(()).
C13_UsageAndSuccess ==
    (argc # 2 /\ pc = "done") =>
        /\ exitResult = "Ok"
        /\ Len(stderr) = 1
        /\ stderr[1].kind = "usage"

\* C13, amended: with an argument count other than 2 nothing is built,
\* loaded, started or written; once gst::init has succeeded main prints the
\* usage line and returns Ok(()), and when gst::init fails main returns
\* that error without the usage line.
C13_WrongArityNoPipelineRun ==
    argc # 2 =>
        /\ pc \in {"gst_init", "args", "done"}
        /\ created = 0
        /\ ~modelLoaded
        /\ ~graphAdded
        /\ pipelineState = "Null"
        /\ delivered = 0
        /\ DOMAIN files = {}
        /\ pc = "done" =>
             \/ /\ exitResult = "Ok"
                /\ Len(stderr) = 1
                /\ stderr[1].kind = "usage"
             \/ /\ exitResult = "Err: gst init"
                /\ stderr = <<>>

C13_Witness ==
    /\ argc = 3
    /\ pc = "done"
    /\ exitResult = "Ok"
    /\ Len(stderr) = 1

\* C14: the sink pad is linked at most once; a pad-added signal that finds
\* it linked changes neither the link nor the count of links, logs no
\* warning and posts nothing.
C14_LinkAtMostOnce ==
    /\ [](linkCount <= 1)
    /\ [](sinkLinked <=> linkCount = 1)
    /\ [][sinkLinked =>
            /\ sinkLinked'
            /\ linkCount' = linkCount
            /\ linkWarned' = linkWarned]_vars
    /\ [][(~dupPadAdded /\ dupPadAdded') =>
            /\ sinkLinked
            /\ UNCHANGED <<sinkLinked, linkCount, linkWarned, bus,
                           pipelineState, pc, exitResult, stderr>>]_vars

C14_Witness ==
    /\ dupPadAdded
    /\ sinkLinked
    /\ linkCount = 1
    /\ ~linkWarned

\* C15: a failed link in the pad-added handler only logs a warning: the
\* step leaves the pipeline state, the controller, the bus and main's
\* result as they were and the sink pad unlinked, so a later pad-added
\* signal links it.
C15_LinkFailureIsWarningOnly ==
    /\ [][(~linkWarned /\ linkWarned') =>
            /\ ~sinkLinked'
            /\ UNCHANGED <<pipelineState, pc, bus, terminal, exitResult,
                           stderr, streamState, linkCount>>]_vars
    /\ [](linkWarned /\ ~sinkLinked => linkCount = 0 /\ delivered = 0)
    /\ []((linkWarned /\ ~sinkLinked /\ pc = "bus_loop"
             /\ pipelineState = "Playing") => ENABLED PadAdded)

C15_Witness ==
    /\ linkWarned
    /\ sinkLinked
    /\ linkCount = 1
    /\ pc = "bus_loop"
    /\ delivered > 0

\* C16 as stated: when all detections of an admitted frame were exported,
\* the frame has exactly as many files as detections.
C16_OneFilePerDetection ==
    (gatePc = "exporting" /\ idx = Len(yolo_output)) =>
        Cardinality({f \in DOMAIN files : f.seq = counter}) = Len(yolo_output)

\* C16, amended: files exist only for admitted frames on which inference
\* ran; the files of the frame being exported are exactly the names
\* frame-n-label-confidence of the detections exported so far, n being that
\* frame's sequence, so at most one per detection and fewer when two names
\* coincide (the last of them empty between File::create and write_to); a
\* frame without detections has none; when an export fails the files of
\* the frame are those of the detections before the failed one, with or
\* without the failed one's; files of other frames are left alone.
C16_FilesAreNamesOfDetections ==
    /\ [](LET name(i) == [seq |-> counter, label |-> yolo_output[i].label,
                          conf |-> FormatConfidence(yolo_output[i].confidence)]
              mine == {f \in DOMAIN files : f.seq = counter}
          IN
          /\ \A f \in DOMAIN files : f.seq % 30 = 0 /\ f.seq \in inferred
          /\ gatePc \in {"admitted", "built"} => mine = {}
          /\ gatePc \in {"exporting", "created"} =>
                /\ mine = {name(i) : i \in 1..idx}
                /\ Cardinality(mine) <= idx
                /\ yolo_output = <<>> => mine = {}
          /\ (gatePc = "panicked" /\ panicAt \in {"create", "write_to"}) =>
                /\ {name(i) : i \in 1..(idx - 1)} \subseteq mine
                /\ mine \subseteq {name(i) : i \in 1..idx})
    /\ [][\A f \in DOMAIN files :
            /\ f \in DOMAIN files'
            /\ (gatePc \notin {"exporting", "created"} \/ f.seq # counter)
                  => files'[f] = files[f]]_vars

C16_Witness ==
    /\ gatePc = "exporting"
    /\ counter = 30
    /\ Len(yolo_output) = 2
    /\ idx = 2
    /\ Cardinality({f \in DOMAIN files : f.seq = 30}) = 1
    /\ \E f \in DOMAIN files : f.seq = 0

\* C20: when two detections of a frame have the same label and the same
\* confidence to two decimals they share one file, and once both were
\* exported it holds the crop of the later one; the frame has as many files
\* as distinct (label, rounded confidence) pairs.
C20_LaterDetectionReplacesEarlier ==
    gatePc = "exporting" =>
        LET name(i) == [seq |-> counter, label |-> yolo_output[i].label,
                        conf |-> FormatConfidence(yolo_output[i].confidence)]
            last(i) == CHOOSE j \in i..idx :
                          /\ name(j) = name(i)
                          /\ \A k \in (j + 1)..idx : name(k) # name(i)
        IN  /\ \A i \in 1..idx :
                 /\ name(i) \in DOMAIN files
                 /\ files[name(i)] =
                       <<CropImm(CropArgs(yolo_output[last(i)].bounding_box))>>
            /\ Cardinality({f \in DOMAIN files : f.seq = counter}) =
                 Cardinality({<<yolo_output[i].label,
                                FormatConfidence(yolo_output[i].confidence)>> :
                              i \in 1..idx})

C20_Witness ==
    /\ gatePc = "exporting"
    /\ Len(yolo_output) = 2
    /\ idx = 2
    /\ yolo_output[1].label = yolo_output[2].label
    /\ yolo_output[1].confidence # yolo_output[2].confidence
    /\ FormatConfidence(yolo_output[1].confidence) =
          FormatConfidence(yolo_output[2].confidence)
    /\ yolo_output[1].bounding_box # yolo_output[2].bounding_box
    /\ Cardinality({f \in DOMAIN files : f.seq = counter}) = 1
    /\ \A f \in DOMAIN files :
          f.seq = counter =>
             files[f] = <<CropImm(CropArgs(yolo_output[2].bounding_box))>>

\* C17: once an element has posted an error on the bus while the pipeline
\* was Playing, the callback is not entered again.
C17_NoFrameAfterError ==
    [][errorInPlaying => delivered' = delivered]_vars

\* C18: the shutdown is cooperative.  set_state(Null) is called only after
\* the bus loop has taken an end-of-stream or an error message; the pipeline
\* state is lowered only inside that call, by steps that leave the
\* callback's variables alone; the stream is stopped (the pipeline leaves
\* Paused for Ready) only while the streaming thread is outside the
\* callback; a callback that has started on a frame moves only by its own
\* steps, to its return or to a panic of its own; and main does not return
\* while a callback is under way.
C18_ShutdownBetweenFrames ==
    /\ [](pc \in {"shutdown", "stopping"} => terminal \in {"eos", "error"})
    /\ [][Rank(pipelineState') < Rank(pipelineState) =>
            /\ pc = "stopping"
            /\ targetState = "Null"
            /\ UNCHANGED gateVars]_vars
    /\ [][Rank(pipelineState') < Rank("Paused") =>
            gatePc \in {"idle", "panicked"}]_vars
    /\ [][(gatePc \notin {"idle", "panicked"}) => (pc' # "done")]_vars
    /\ [](pc = "done" => gatePc \in {"idle", "panicked"})
    /\ [][(gatePc \in {"admitted", "built", "exporting", "created"}
             /\ gatePc' # gatePc) =>
            /\ gatePc' \in {"built", "exporting", "created", "idle", "panicked"}
            /\ gatePc' = "idle" => (gatePc = "exporting" /\ idx = Len(yolo_output))
            /\ pipelineState' = pipelineState]_vars

C18_Witness ==
    /\ pc = "stopping"
    /\ targetState = "Null"
    /\ pipelineState = "Paused"
    /\ gatePc = "created"
    /\ idx < Len(yolo_output)

====
